---- MODULE Spec2Model ----
(***************************************************************************)
(* A model of .github/scripts/youtube_to_discord.py: one run of main()     *)
(* after another against the persistent videos table, plus the pure        *)
(* filter functions applied to bounded inputs.                             *)
(*                                                                         *)
(* Text is a sequence of one-character strings.  A timestamp is a number   *)
(* of hours on the proleptic Gregorian calendar (minutes and seconds are   *)
(* taken to be zero).                                                      *)
(***************************************************************************)
EXTENDS Integers, Sequences, FiniteSets, TLC

\* ------------------------------------------------------------------ text

\* str.lower() on the characters the model uses
LowerChar(c) ==
    CASE c = "A" -> "a"
      [] c = "B" -> "b"
      [] c = "E" -> "e"
      [] c = "L" -> "l"
      [] c = "N" -> "n"
      [] c = "P" -> "p"
      [] OTHER -> c

Lower(s) == [i \in 1..Len(s) |-> LowerChar(s[i])]

\* Python's `needle in hay` on strings
Contains(hay, needle) ==
    \E i \in 0..(Len(hay) - Len(needle)) :
        SubSeq(hay, i + 1, i + Len(needle)) = needle

\* \s of the regular expressions and of str.split()
IsSpace(c) == c = " "

\* index of the last character of the run of non-space characters that
\* starts at i (the greedy \S+), i - 1 when there is none
RECURSIVE NonSpaceEnd(_, _)
NonSpaceEnd(s, i) ==
    IF i > Len(s) \/ IsSpace(s[i]) THEN i - 1 ELSE NonSpaceEnd(s, i + 1)

\* index of the first double quote at or after i, 0 when there is none
RECURSIVE QuoteAt(_, _)
QuoteAt(s, i) ==
    IF i > Len(s) THEN 0
    ELSE IF s[i] = "\"" THEN i
    ELSE QuoteAt(s, i + 1)

\* (?:"([^"]*)"|\S+) tried at position i: the end of the match (0: no match)
\* and group 2 (empty when the \S+ branch matched)
RestAt(s, i) ==
    IF i > Len(s) THEN [end |-> 0, quoted |-> <<>>]
    ELSE IF s[i] = "\"" /\ QuoteAt(s, i + 1) > 0
         THEN [end |-> QuoteAt(s, i + 1),
               quoted |-> SubSeq(s, i + 1, QuoteAt(s, i + 1) - 1)]
    ELSE IF ~IsSpace(s[i])
         THEN [end |-> NonSpaceEnd(s, i), quoted |-> <<>>]
    ELSE [end |-> 0, quoted |-> <<>>]

\* ([+-]?)(?:"([^"]*)"|\S+) tried at position i: the prefix is taken when the
\* rest matches after it, and given up (backtracking) when it does not
MatchAt(s, i) ==
    IF s[i] \in {"+", "-"} /\ RestAt(s, i + 1).end > 0
    THEN [end |-> RestAt(s, i + 1).end, prefix |-> <<s[i]>>,
          quoted |-> RestAt(s, i + 1).quoted,
          matched |-> SubSeq(s, i + 1, RestAt(s, i + 1).end)]
    ELSE [end |-> RestAt(s, i).end, prefix |-> <<>>,
          quoted |-> RestAt(s, i).quoted,
          matched |-> SubSeq(s, i, RestAt(s, i).end)]

\* re.findall(r'([+-]?)(?:"([^"]*)"|\S+)', s) from position i on: the
\* non-overlapping matches left to right, each with its two groups (and the
\* text matched after the prefix, which findall itself drops)
RECURSIVE FindAllFrom(_, _)
FindAllFrom(s, i) ==
    IF i > Len(s) THEN <<>>
    ELSE IF MatchAt(s, i).end = 0 THEN FindAllFrom(s, i + 1)
    ELSE <<MatchAt(s, i)>> \o FindAllFrom(s, MatchAt(s, i).end + 1)

FindAll(s) == FindAllFrom(s, 1)

\* str.split(): the maximal runs of non-space characters
RECURSIVE SplitFrom(_, _)
SplitFrom(s, i) ==
    IF i > Len(s) THEN <<>>
    ELSE IF IsSpace(s[i]) THEN SplitFrom(s, i + 1)
    ELSE <<SubSeq(s, i, NonSpaceEnd(s, i))>> \o SplitFrom(s, NonSpaceEnd(s, i) + 1)

Split(s) == SplitFrom(s, 1)

\* ' '.join(words)
RECURSIVE JoinSpace(_)
JoinSpace(words) ==
    IF Len(words) = 0 THEN <<>>
    ELSE IF Len(words) = 1 THEN words[1]
    ELSE words[1] \o <<" ">> \o JoinSpace(Tail(words))

\* one pass of the loop body of apply_advanced_filter: FALSE when the term
\* makes the function return False
TermPasses(text_to_check, tok) ==
    LET term == IF tok.quoted # <<>> THEN Lower(tok.quoted) ELSE Lower(tok.prefix)
    IN  IF tok.prefix = <<"+">> \/ tok.prefix = <<>>
        THEN Contains(text_to_check, term)
        ELSE IF Len(Split(term)) > 1
             THEN ~Contains(text_to_check, JoinSpace(Split(term)))
             ELSE ~Contains(text_to_check, term)

apply_advanced_filter(title, advanced_filter) ==
    IF advanced_filter = <<>> THEN TRUE
    ELSE LET terms == FindAll(advanced_filter)
         IN  \A k \in 1..Len(terms) : TermPasses(Lower(title), terms[k])

\* ----------------------------------------------------------- date filter

\* datetime's calendar: _is_leap, _days_in_month, _days_before_year, toordinal
IsLeap(y) == y % 4 = 0 /\ (y % 100 # 0 \/ y % 400 = 0)

DaysInMonth(y, m) ==
    IF m = 2 THEN (IF IsLeap(y) THEN 29 ELSE 28)
    ELSE IF m \in {4, 6, 9, 11} THEN 30 ELSE 31

RECURSIVE DaysBeforeMonth(_, _)
DaysBeforeMonth(y, m) ==
    IF m <= 1 THEN 0 ELSE DaysBeforeMonth(y, m - 1) + DaysInMonth(y, m - 1)

DaysBeforeYear(y) ==
    (y - 1) * 365 + ((y - 1) \div 4) - ((y - 1) \div 100) + ((y - 1) \div 400)

Ordinal(y, m, d) == DaysBeforeYear(y) + DaysBeforeMonth(y, m) + d

\* datetime.strptime(text, '%Y-%m-%d') raises ValueError on a month or a day
\* the calendar does not have
ValidDate(y, m, d) ==
    /\ y >= 1
    /\ m \in 1..12
    /\ d >= 1
    /\ d <= DaysInMonth(y, m)

\* a datetime in UTC as hours: strptime(...).replace(tzinfo=timezone.utc)
ToHours(y, m, d, h) == Ordinal(y, m, d) * 24 + h

\* The filter expression is a sequence of whitespace-separated words, each a
\* record [key, y, m, d, n, unit]: "since:Y-M-D", "until:Y-M-D",
\* "past:<n><unit>", or any other word (key "junk").
SinceMatches(w) == w.key = "since"
UntilMatches(w) == w.key = "until"
\* r'past:(\d+)([hdmy])'
PastMatches(w) == w.key = "past" /\ w.unit \in {"h", "d", "m", "y"}

\* whether the pattern of the given clause matches the word
WordMatches(w, clause) ==
    CASE clause = "since" -> SinceMatches(w)
      [] clause = "until" -> UntilMatches(w)
      [] clause = "past" -> PastMatches(w)

\* re.search: the first word of the expression the pattern matches, as a set
\* (empty: no match)
FirstMatch(filter_string, clause) ==
    LET hits == {i \in 1..Len(filter_string) : WordMatches(filter_string[i], clause)}
    IN  IF hits = {} THEN {}
        ELSE {filter_string[CHOOSE i \in hits : \A j \in hits : i <= j]}

\* timedelta of a past: clause, in hours
PastSpan(w) ==
    CASE w.unit = "h" -> w.n
      [] w.unit = "d" -> w.n * 24
      [] w.unit = "m" -> w.n * 30 * 24
      [] w.unit = "y" -> w.n * 365 * 24

\* parse_date_filter: the three bounds, each a set holding the datetime or
\* empty for None; error when strptime raises ValueError
parse_date_filter(filter_string, now) ==
    LET since_match == FirstMatch(filter_string, "since")
        until_match == FirstMatch(filter_string, "until")
        past_match  == FirstMatch(filter_string, "past")
    IN  IF filter_string = <<>>
        THEN [error |-> FALSE, since_date |-> {}, until_date |-> {}, past_date |-> {}]
        ELSE IF \E w \in since_match \cup until_match : ~ValidDate(w.y, w.m, w.d)
        THEN [error |-> TRUE, since_date |-> {}, until_date |-> {}, past_date |-> {}]
        ELSE [error |-> FALSE,
              since_date |-> {ToHours(w.y, w.m, w.d, 0) : w \in since_match},
              until_date |-> {ToHours(w.y, w.m, w.d, 0) : w \in until_match},
              past_date  |-> {now - PastSpan(w) : w \in past_match}]

is_within_date_range_AND(published_at, since_date, until_date, past_date) ==
    /\ \A t \in past_date : published_at >= t
    /\ \A t \in since_date : published_at >= t
    /\ \A t \in until_date : published_at <= t

\* is_within_date_range; published_at is the video's datetime in hours
is_within_date_range(published_at, since_date, until_date, past_date) ==
    \/ \E t \in past_date : published_at >= t
    \/ \E t \in since_date : published_at >= t
    \/ \E t \in until_date : published_at <= t

\* ------------------------------------------------------------ the world

\* the videos the upstream API knows, with the snippet fields the pipeline
\* reads from videos().list: publishedAt (hours) and title
VideoIds == {"v1", "v2"}

Catalog ==
    [v \in VideoIds |->
        CASE v = "v1" -> [publishedAt |-> ToHours(2024, 6, 1, 0),
                          title |-> <<"a", " ", "B">>]
          [] v = "v2" -> [publishedAt |-> ToHours(2024, 6, 8, 0),
                          title |-> <<"b">>]]

\* datetime.now(timezone.utc) when a run parses its date filter
NowChoices == {ToHours(2024, 6, 11, 0), ToHours(2024, 6, 17, 0)}

\* result caps of the model's runs: YOUTUBE_MAX_RESULTS and
\* YOUTUBE_INIT_MAX_RESULTS (any digits in the environment)
MAX_RESULTS == 2
INIT_MAX_RESULTS == 3

\* most items the upstream puts on one page of the model
MaxPageLen == 2
\* most page-listing calls of one fetch the model follows (the playlist loop
\* has no ceiling of its own)
MaxCalls == 6

Word(key, y, m, d, n, unit) ==
    [key |-> key, y |-> y, m |-> m, d |-> d, n |-> n, unit |-> unit]

\* DATE_FILTER_YOUTUBE and ADVANCED_FILTER_YOUTUBE values of the model's runs
DateFilterChoices ==
    { <<>>,
      <<Word("past", 0, 0, 0, 7, "d")>>,
      <<Word("since", 2024, 1, 1, 0, "-")>> }

AdvancedFilterChoices == { <<>>, <<"\"", "a", "\"">> }

Modes == {"channels", "playlists", "search"}

\* the values YOUTUBE_PLAYLIST_SORT may have (line 78)
SortPolicies == {"default", "reverse", "date_newest", "date_oldest", "position"}

\* The environment variables of one run.  "" is an unset variable.  For the
\* two result caps "digits" is the decimal text of the model's cap, "spaced"
\* a text int() takes and str.isdigit() does not (' 5'), "abc" a text int()
\* rejects.
BaseEnv ==
    [ YOUTUBE_API_KEY |-> "key",
      YOUTUBE_MODE |-> "channels",
      YOUTUBE_CHANNEL_ID |-> "id",
      YOUTUBE_PLAYLIST_ID |-> "id",
      YOUTUBE_PLAYLIST_SORT |-> "",
      YOUTUBE_SEARCH_KEYWORD |-> "id",
      YOUTUBE_INIT_MAX_RESULTS |-> "digits",
      YOUTUBE_MAX_RESULTS |-> "digits",
      INITIALIZE_MODE_YOUTUBE |-> "false",
      ADVANCED_FILTER_YOUTUBE |-> <<>>,
      DATE_FILTER_YOUTUBE |-> <<Word("since", 2024, 1, 1, 0, "-")>>,
      DISCORD_WEBHOOK_YOUTUBE |-> "url",
      LANGUAGE_YOUTUBE |-> "",
      YOUTUBE_DETAILVIEW |-> "" ]

\* environments check_env_variables accepts: every mode, flag and filter
ValidEnvs ==
    { [BaseEnv EXCEPT !.YOUTUBE_MODE = m,
                      !.INITIALIZE_MODE_YOUTUBE = i,
                      !.YOUTUBE_DETAILVIEW = d,
                      !.DATE_FILTER_YOUTUBE = df,
                      !.ADVANCED_FILTER_YOUTUBE = af] :
        m \in Modes, i \in {"true", "false"}, d \in {"true", ""},
        df \in DateFilterChoices, af \in AdvancedFilterChoices }

\* playlist runs under each sort policy
SortEnvs ==
    { [BaseEnv EXCEPT !.YOUTUBE_MODE = "playlists",
                      !.YOUTUBE_PLAYLIST_SORT = s,
                      !.LANGUAGE_YOUTUBE = "Korean"] : s \in SortPolicies }

\* environments with one value missing or invalid
InvalidEnvs ==
    { [BaseEnv EXCEPT !.YOUTUBE_API_KEY = ""],
      [BaseEnv EXCEPT !.YOUTUBE_MODE = ""],
      [BaseEnv EXCEPT !.YOUTUBE_MODE = "videos"],
      [BaseEnv EXCEPT !.DISCORD_WEBHOOK_YOUTUBE = ""],
      [BaseEnv EXCEPT !.YOUTUBE_CHANNEL_ID = ""],
      [BaseEnv EXCEPT !.YOUTUBE_MODE = "playlists", !.YOUTUBE_PLAYLIST_ID = ""],
      [BaseEnv EXCEPT !.YOUTUBE_MODE = "search", !.YOUTUBE_SEARCH_KEYWORD = ""],
      [BaseEnv EXCEPT !.YOUTUBE_PLAYLIST_SORT = "random"],
      [BaseEnv EXCEPT !.YOUTUBE_MAX_RESULTS = "spaced"],
      [BaseEnv EXCEPT !.YOUTUBE_MAX_RESULTS = "abc"],
      [BaseEnv EXCEPT !.YOUTUBE_INIT_MAX_RESULTS = "abc"],
      [BaseEnv EXCEPT !.INITIALIZE_MODE_YOUTUBE = "yes"],
      [BaseEnv EXCEPT !.YOUTUBE_DETAILVIEW = "yes"],
      [BaseEnv EXCEPT !.LANGUAGE_YOUTUBE = "French"] }

Envs == ValidEnvs \cup SortEnvs \cup InvalidEnvs

\* int(text) raises ValueError
IntRaises(text) == text = "abc"
\* text.isdigit()
IsDigit(text) == text = "digits"

\* lines 26-27, run when the module is loaded, before main(): int() of a cap
\* that is not a number raises ValueError outside every try
ImportRaises(e) ==
    \/ IntRaises(e.YOUTUBE_INIT_MAX_RESULTS)
    \/ IntRaises(e.YOUTUBE_MAX_RESULTS)

\* the module's globals read from the environment (lines 20-36)
Import(e) ==
    [ YOUTUBE_MODE |-> IF e.YOUTUBE_MODE = "" THEN "channels" ELSE e.YOUTUBE_MODE,
      YOUTUBE_PLAYLIST_SORT |->
          IF e.YOUTUBE_PLAYLIST_SORT = "" THEN "default" ELSE e.YOUTUBE_PLAYLIST_SORT,
      INITIALIZE_MODE_YOUTUBE |-> e.INITIALIZE_MODE_YOUTUBE = "true",
      ADVANCED_FILTER_YOUTUBE |-> e.ADVANCED_FILTER_YOUTUBE,
      DATE_FILTER_YOUTUBE |-> e.DATE_FILTER_YOUTUBE,
      LANGUAGE_YOUTUBE |->
          IF e.LANGUAGE_YOUTUBE = "" THEN "English" ELSE e.LANGUAGE_YOUTUBE,
      YOUTUBE_DETAILVIEW |-> e.YOUTUBE_DETAILVIEW = "true" ]

check_env_variables_NoRequired(e) ==
    /\ e.YOUTUBE_MODE \in Modes
    /\ e.YOUTUBE_MODE = "channels" => e.YOUTUBE_CHANNEL_ID # ""
    /\ e.YOUTUBE_MODE = "playlists" => e.YOUTUBE_PLAYLIST_ID # ""
    /\ e.YOUTUBE_MODE = "search" => e.YOUTUBE_SEARCH_KEYWORD # ""
    /\ e.YOUTUBE_PLAYLIST_SORT \in SortPolicies \cup {""}
    /\ \A value \in {e.YOUTUBE_INIT_MAX_RESULTS, e.YOUTUBE_MAX_RESULTS} :
           value # "" => IsDigit(value)
    /\ \A value \in {e.INITIALIZE_MODE_YOUTUBE, e.YOUTUBE_DETAILVIEW} :
           value # "" => value \in {"true", "false"}
    /\ e.LANGUAGE_YOUTUBE \in {"", "English", "Korean"}

\* check_env_variables: TRUE when it returns, FALSE when it raises ValueError
check_env_variables(e) ==
    /\ \A var \in {e.YOUTUBE_API_KEY, e.YOUTUBE_MODE, e.DISCORD_WEBHOOK_YOUTUBE} :
           var # ""
    /\ e.YOUTUBE_MODE \in Modes
    /\ e.YOUTUBE_MODE = "channels" => e.YOUTUBE_CHANNEL_ID # ""
    /\ e.YOUTUBE_MODE = "playlists" => e.YOUTUBE_PLAYLIST_ID # ""
    /\ e.YOUTUBE_MODE = "search" => e.YOUTUBE_SEARCH_KEYWORD # ""
    /\ e.YOUTUBE_PLAYLIST_SORT \in SortPolicies \cup {""}
    /\ \A value \in {e.YOUTUBE_INIT_MAX_RESULTS, e.YOUTUBE_MAX_RESULTS} :
           value # "" => IsDigit(value)
    /\ \A value \in {e.INITIALIZE_MODE_YOUTUBE, e.YOUTUBE_DETAILVIEW} :
           value # "" => value \in {"true", "false"}
    /\ e.LANGUAGE_YOUTUBE \in {"", "English", "Korean"}

\* the globals of the model's runs
Configs == {Import(e) : e \in Envs}

\* environ and cfg while no process runs
NoEnviron == BaseEnv
NoConfig == Import(NoEnviron)

\* all sequences over S of length at most n
SeqsUpTo(S, n) == UNION {[1..k -> S] : k \in 0..n}

\* one item of a playlistItems().list / search().list page
Items == [id : VideoIds, private : BOOLEAN]

\* one response of a page-listing call: an HttpError, or items and whether a
\* nextPageToken comes with them
Pages ==
    [error : {FALSE}, items : SeqsUpTo(Items, MaxPageLen), next : BOOLEAN]
    \cup {[error |-> TRUE, items |-> <<>>, next |-> FALSE]}

VARIABLES
    store,              \* video_id of every row of the videos table
    pc,                 \* where main() is
    environ,            \* the environment variables of the current run
    cfg,                \* the module's globals read from them
    storeAtStart,       \* the rows the table held when the current run began
    video_items,        \* the adapter's list so far
    api_calls,          \* api_calls of fetch_channel_videos/fetch_search_videos
    calls,              \* page-listing calls made by the current fetch
    videos,             \* what fetch_videos returned
    new_videos,         \* what process_new_videos returned
    filtered_by_date,   \* its counter of date-filter rejections
    filtered_by_advanced,
    idx,                \* position of the loop of process_videos
    step,               \* what is next for new_videos[idx]
    log,                \* the saves and webhook posts of the current run
    outcome,            \* how the run ended
    count,              \* COUNT(*) logged by log_execution_info
    exit_status,        \* the exit status of the process
    completion_logged,  \* the line of main's finally clause has been logged
    attempt_number,     \* attempt of the retry-decorated call in progress
    video_details_dict, \* ids fetch_video_details got the details of
    undelivered,        \* rows a normal run saved before the summary post
                        \* of the video failed, with no summary posted since
    kw,                 \* apply_advanced_filter applied to one input
    dt,                 \* the date filter applied to one input
    dur,                \* parse_duration applied to one input
    srt,                \* sort_playlist_items applied to one input
    rate                \* one process making send_to_discord calls, with a clock

\* what the functions checked on their own work on
pureVars == <<kw, dt, dur, srt, rate>>

\* how a run ends
endVars == <<outcome, exit_status, completion_logged>>

runVars == <<store, pc, environ, cfg, storeAtStart, video_items, api_calls,
             calls, videos, new_videos, filtered_by_date, filtered_by_advanced,
             idx, step, log, outcome, count, exit_status, completion_logged,
             attempt_number, video_details_dict, undelivered>>

vars == <<runVars, pureVars>>

KwIdle == [applied |-> FALSE, title |-> <<>>, filter |-> <<>>, result |-> FALSE]
DtIdle == [applied |-> FALSE, filter |-> <<>>, published_at |-> 0, now |-> 0,
           error |-> FALSE, result |-> FALSE]

\* ---------------------------------------------------------------- store

init_db_NoDrop(reset, rows) == rows

\* init_db: DROP TABLE IF EXISTS when reset, then CREATE TABLE IF NOT EXISTS
init_db(reset, rows) == IF reset THEN {} ELSE rows

\* save_video: INSERT OR REPLACE by primary key
save_video(rows, video_id) == rows \cup {video_id}

\* ------------------------------------------------------ retry decorator

\* stop_after_attempt(3) of every @retry of the script
StopAfterAttempt == 3

\* isinstance(raised, cls) for the exceptions of the model: the script's three
\* error kinds derive from Exception alone, HttpError and RequestException are
\* not among their bases
IsInstance(raised, cls) == raised = cls \/ cls = "Exception"

\* tenacity after an attempt that raised: TRUE when it waits and calls the
\* function again, FALSE when it lets the exception through
Retries(raised, retried_type, attempt) ==
    /\ IsInstance(raised, retried_type)
    /\ attempt < StopAfterAttempt

\* ------------------------------------------------------- source adapter

max_results_of(c) ==
    IF c.INITIALIZE_MODE_YOUTUBE THEN INIT_MAX_RESULTS ELSE MAX_RESULTS

\* max_api_calls of fetch_channel_videos and of fetch_search_videos
ChannelMaxApiCalls == 3
SearchMaxApiCalls == 5

\* the items of a page that are not private (search results carry no status)
NotPrivate(items) == SelectSeq(items, LAMBDA it : ~it.private)
IdsOf(items) == [i \in 1..Len(items) |-> items[i].id]

AppendAll(list, ids, max_results) == list \o ids

\* the for loop of fetch_channel_videos / fetch_search_videos: append, and
\* break once the list holds max_results
AppendUntilCap(list, ids, max_results) ==
    IF Len(list) + Len(ids) <= max_results THEN list \o ids
    ELSE list \o SubSeq(ids, 1, max_results - Len(list))

\* playlist_items[:max_results]
Truncate(list, max_results) ==
    IF Len(list) <= max_results THEN list ELSE SubSeq(list, 1, max_results)

\* list(reversed(playlist_items))
Reversed(items) == [i \in 1..Len(items) |-> items[Len(items) + 1 - i]]

\* one step of sorted(playlist_items, key=get_published_at, reverse=...):
\* the sort is stable, also with reverse=True, so an item goes after every
\* item that does not have to come after it
RECURSIVE InsertByPublishedAt(_, _, _)
InsertByPublishedAt(sorted, item, reverse) ==
    IF sorted = <<>> THEN <<item>>
    ELSE IF (IF reverse
             THEN Head(sorted).publishedAt >= item.publishedAt
             ELSE Head(sorted).publishedAt <= item.publishedAt)
         THEN <<Head(sorted)>> \o InsertByPublishedAt(Tail(sorted), item, reverse)
         ELSE <<item>> \o sorted

RECURSIVE SortedByPublishedAt(_, _)
SortedByPublishedAt(items, reverse) ==
    IF items = <<>> THEN <<>>
    ELSE InsertByPublishedAt(
             SortedByPublishedAt(SubSeq(items, 1, Len(items) - 1), reverse),
             items[Len(items)], reverse)

\* sort_playlist_items: playlist_items holds (video_id, snippet) pairs, here
\* records of the video id and the snippet's publishedAt and position.  The
\* key of the 'position' policy reads x[1]['snippet'], and a snippet has no
\* key 'snippet': sorted() calls the key on every item and KeyError leaves
\* the function unless the list is empty.
sort_playlist_items(playlist_items, policy) ==
    CASE policy = "reverse" ->
            [error |-> FALSE, items |-> Reversed(playlist_items)]
      [] policy = "date_newest" ->
            [error |-> FALSE, items |-> SortedByPublishedAt(playlist_items, TRUE)]
      [] policy = "date_oldest" ->
            [error |-> FALSE, items |-> SortedByPublishedAt(playlist_items, FALSE)]
      [] policy = "position" ->
            IF playlist_items = <<>>
            THEN [error |-> FALSE, items |-> <<>>]
            ELSE [error |-> TRUE, items |-> <<>>]
      [] OTHER ->
            [error |-> FALSE, items |-> playlist_items]

\* the (video_id, snippet) pairs of the ids fetched from a playlist, in the
\* order of the playlist
Snippets(ids) ==
    [i \in 1..Len(ids) |->
        [id |-> ids[i], publishedAt |-> Catalog[ids[i]].publishedAt, position |-> i]]

\* ------------------------------------------------------ filter pipeline

AlreadyExists_Never(video_id, existing_video_ids) == FALSE

\* `video_id in existing_video_ids`, the dedup gate of process_new_videos
AlreadyExists(video_id, existing_video_ids) == video_id \in existing_video_ids

\* what the loop body of process_new_videos does with one fetched video:
\* details is the set of ids video_details_dict has, dates the parsed filter
Verdict(video_id, details, existing_video_ids, c, dates) ==
    IF video_id \notin details THEN "no_details"
    ELSE IF AlreadyExists(video_id, existing_video_ids) THEN "exists"
    ELSE IF /\ ~c.INITIALIZE_MODE_YOUTUBE
            /\ ~is_within_date_range(Catalog[video_id].publishedAt,
                    dates.since_date, dates.until_date, dates.past_date)
         THEN "date"
    ELSE IF ~apply_advanced_filter(Catalog[video_id].title,
                                   c.ADVANCED_FILTER_YOUTUBE)
         THEN "advanced"
    ELSE "new"

CountVerdict(vs, details, existing_video_ids, c, dates, verdict) ==
    Cardinality({i \in 1..Len(vs) :
        Verdict(vs[i], details, existing_video_ids, c, dates) = verdict})

\* process_new_videos: the accepted videos, in the order of `videos`
process_new_videos(vs, details, existing_video_ids, c, dates) ==
    SelectSeq(vs, LAMBDA v :
        Verdict(v, details, existing_video_ids, c, dates) = "new")

\* ------------------------------------------------------------ publisher

StepAfter_AlwaysEmbed(s, detailview) ==
    CASE s = "save" -> "summary"
      [] s = "summary" -> "embed"
      [] s = "embed" -> "next"

\* the order of the calls made for one video by the loop of process_videos
\* and by send_discord_messages
StepAfter(s, detailview) ==
    CASE s = "save" -> "summary"
      [] s = "summary" -> IF detailview THEN "embed" ELSE "next"
      [] s = "embed" -> "next"

Event(op, video_id, ok) == [op |-> op, id |-> video_id, ok |-> ok]

\* --------------------------------------------------------------- main()

\* the three error kinds main() catches by name
ErrorKinds == {"YouTubeAPIError", "DatabaseError", "DiscordWebhookError"}

\* the except clauses of main(): the exit status an exception raised inside
\* the try leaves (sys.exit(1) in `except Exception` only)
main_except(kind) == IF kind \in ErrorKinds THEN 0 ELSE 1

\* no process runs and the table is empty
RunIdle ==
    /\ store = {}
    /\ pc = "idle"
    /\ environ = NoEnviron
    /\ cfg = NoConfig
    /\ storeAtStart = {}
    /\ video_items = <<>>
    /\ api_calls = 0
    /\ calls = 0
    /\ videos = <<>>
    /\ new_videos = <<>>
    /\ filtered_by_date = 0
    /\ filtered_by_advanced = 0
    /\ idx = 1
    /\ step = "save"
    /\ log = <<>>
    /\ outcome = "running"
    /\ count = 0
    /\ exit_status = 0
    /\ completion_logged = FALSE
    /\ attempt_number = 1
    /\ video_details_dict = {}
    /\ undelivered = {}

DurIdle == [applied |-> FALSE, days |-> 0, hours |-> 0, minutes |-> 0,
            seconds |-> 0, language |-> "English", result |-> <<>>]
SrtIdle == [applied |-> FALSE, playlist_items |-> <<>>, policy |-> "default",
            error |-> FALSE, result |-> <<>>]
RateIdle == [pc |-> "off", now |-> 0, discord_message_count |-> 0,
             discord_message_reset_time |-> 0, posts |-> <<>>, sent |-> 0,
             count_at_post |-> 0, slow |-> FALSE, restarted |-> FALSE]

Init ==
    /\ RunIdle
    /\ kw = KwIdle
    /\ dt = DtIdle
    /\ dur = DurIdle
    /\ srt = SrtIdle
    /\ rate = RateIdle

\* an exception reaches the except clauses of main(): the matching clause
\* logs it, `except Exception` also exits with status 1, and the finally
\* clause logs the completion line
Raise(kind) ==
    /\ outcome' = kind
    /\ exit_status' = main_except(kind)
    /\ completion_logged' = TRUE
    /\ pc' = "done"

\* A process starts: the module is loaded (lines 20-41), then main() calls
\* check_env_variables.  A ValueError of the module level is outside main():
\* the interpreter prints the traceback and exits with status 1.
CheckEnvVariables ==
    /\ pc = "idle"
    /\ storeAtStart' = store
    /\ environ' \in Envs
    /\ cfg' = Import(environ')
    /\ IF ImportRaises(environ')
       THEN /\ outcome' = "ValueError"
            /\ exit_status' = 1
            /\ completion_logged' = FALSE
            /\ pc' = "done"
       ELSE IF ~check_env_variables(environ')
       THEN Raise("ValueError")
       ELSE /\ pc' = "init_db"
            /\ UNCHANGED endVars
    /\ UNCHANGED <<store, video_items, api_calls, calls, videos, new_videos,
                   filtered_by_date, filtered_by_advanced, idx, step, log,
                   count, attempt_number, video_details_dict, undelivered,
                   pureVars>>

\* initialize_database_if_needed runs init_db, which may fail with
\* sqlite3.Error (DatabaseError).
InitializeDatabase ==
    /\ pc = "init_db"
    /\ \E dbOk \in BOOLEAN :
        IF dbOk
        THEN /\ store' = init_db(cfg.INITIALIZE_MODE_YOUTUBE, store)
             /\ undelivered' = undelivered \cap store'
             /\ pc' = "build"
             /\ UNCHANGED endVars
        ELSE /\ Raise("DatabaseError")
             /\ UNCHANGED <<store, undelivered>>
    /\ UNCHANGED <<environ, cfg, storeAtStart, video_items, api_calls, calls,
                   videos, new_videos, filtered_by_date, filtered_by_advanced,
                   idx, step, log, count, attempt_number, video_details_dict,
                   pureVars>>

\* build_youtube_client: an HttpError of build() is raised on as
\* YouTubeAPIError, which is what the retry decorator gets to see
BuildYoutubeClient ==
    /\ pc = "build"
    /\ \E buildOk \in BOOLEAN :
        IF buildOk
        THEN /\ pc' = "fetch"
             /\ attempt_number' = 1
             /\ UNCHANGED endVars
        ELSE IF Retries("YouTubeAPIError", "HttpError", attempt_number)
        THEN /\ attempt_number' = attempt_number + 1
             /\ UNCHANGED <<pc, endVars>>
        ELSE /\ Raise("YouTubeAPIError")
             /\ UNCHANGED attempt_number
    /\ UNCHANGED <<store, environ, cfg, storeAtStart, video_items, api_calls,
                   calls, videos, new_videos, filtered_by_date,
                   filtered_by_advanced, idx, step, log, count,
                   video_details_dict, undelivered, pureVars>>

\* fetch_videos returns: process_videos is next
FetchReturns(result) ==
    /\ videos' = result
    /\ video_items' = <<>>
    /\ pc' = "process"
    /\ attempt_number' = 1
    /\ UNCHANGED <<api_calls, endVars>>

\* an exception leaves fetch_videos: its retry decorator (HttpError) calls it
\* again from the start, or lets the exception through to main()
FetchRaises(raised) ==
    IF Retries(raised, "HttpError", attempt_number)
    THEN /\ attempt_number' = attempt_number + 1
         /\ video_items' = <<>>
         /\ api_calls' = 0
         /\ UNCHANGED <<pc, videos, endVars>>
    ELSE /\ Raise(raised)
         /\ UNCHANGED <<video_items, api_calls, videos, attempt_number>>

\* One pass of the while loop of fetch_channel_videos (or its exit when the
\* condition fails), then get_channel_info, which swallows its errors.  The
\* except clause of the loop turns HttpError into YouTubeAPIError.
FetchChannelVideos ==
    /\ pc = "fetch"
    /\ cfg.YOUTUBE_MODE = "channels"
    /\ IF Len(video_items) < max_results_of(cfg) /\ api_calls < ChannelMaxApiCalls
       THEN \E page \in Pages :
            /\ calls' = calls + 1
            /\ IF page.error
               THEN FetchRaises("YouTubeAPIError")
               ELSE LET got == AppendUntilCap(video_items,
                                   IdsOf(NotPrivate(page.items)), max_results_of(cfg))
                    IN  IF ~page.next
                        THEN FetchReturns(got)
                        ELSE /\ video_items' = got
                             /\ api_calls' = api_calls + 1
                             /\ UNCHANGED <<pc, videos, attempt_number, endVars>>
       ELSE FetchReturns(video_items) /\ UNCHANGED calls
    /\ UNCHANGED <<store, environ, cfg, storeAtStart, new_videos,
                   filtered_by_date, filtered_by_advanced, idx, step, log,
                   count, video_details_dict, undelivered, pureVars>>

\* One pass of the while loop of fetch_search_videos (search results carry no
\* privacy status: every item is taken).
FetchSearchVideos ==
    /\ pc = "fetch"
    /\ cfg.YOUTUBE_MODE = "search"
    /\ IF Len(video_items) < max_results_of(cfg) /\ api_calls < SearchMaxApiCalls
       THEN \E page \in Pages :
            /\ calls' = calls + 1
            /\ IF page.error
               THEN FetchRaises("YouTubeAPIError")
               ELSE LET got == AppendUntilCap(video_items, IdsOf(page.items),
                                              max_results_of(cfg))
                    IN  IF ~page.next
                        THEN FetchReturns(got)
                        ELSE /\ video_items' = got
                             /\ api_calls' = api_calls + 1
                             /\ UNCHANGED <<pc, videos, attempt_number, endVars>>
       ELSE FetchReturns(video_items) /\ UNCHANGED calls
    /\ UNCHANGED <<store, environ, cfg, storeAtStart, new_videos,
                   filtered_by_date, filtered_by_advanced, idx, step, log,
                   count, video_details_dict, undelivered, pureVars>>

\* fetch_playlist_videos leaves its loop: playlist_items[:max_results] goes
\* through sort_playlist_items, whose KeyError no except clause of the
\* function catches
PlaylistReturns(playlist_items) ==
    LET sorted == sort_playlist_items(
                      Snippets(Truncate(playlist_items, max_results_of(cfg))),
                      cfg.YOUTUBE_PLAYLIST_SORT)
    IN  IF sorted.error
        THEN FetchRaises("KeyError")
        ELSE FetchReturns(IdsOf(sorted.items))

\* One pass of the while loop of fetch_playlist_videos; an HttpError of the
\* playlists().list call made before the loop is the error of the first pass.
\* The loop has no api_calls counter.
FetchPlaylistVideos ==
    /\ pc = "fetch"
    /\ cfg.YOUTUBE_MODE = "playlists"
    /\ calls < MaxCalls
    /\ IF Len(video_items) < max_results_of(cfg)
       THEN \E page \in Pages :
            /\ calls' = calls + 1
            /\ IF page.error
               THEN FetchRaises("YouTubeAPIError")
               ELSE LET got == video_items \o IdsOf(NotPrivate(page.items))
                    IN  IF ~page.next \/ Len(got) >= max_results_of(cfg)
                        THEN PlaylistReturns(got)
                        ELSE /\ video_items' = got
                             /\ UNCHANGED <<pc, videos, api_calls,
                                            attempt_number, endVars>>
       ELSE PlaylistReturns(video_items) /\ UNCHANGED calls
    /\ UNCHANGED <<store, environ, cfg, storeAtStart, new_videos,
                   filtered_by_date, filtered_by_advanced, idx, step, log,
                   count, video_details_dict, undelivered, pureVars>>

\* process_videos up to its loop: get_existing_video_ids, parse_date_filter,
\* fetch_video_details (a failed chunk or an id the API no longer has leaves
\* ids out of video_details_dict), process_new_videos.
ProcessVideos ==
    /\ pc = "process"
    /\ \E now \in NowChoices, details \in SUBSET VideoIds :
        LET existing_video_ids == store
            dates == parse_date_filter(cfg.DATE_FILTER_YOUTUBE, now)
        IN  IF dates.error
            THEN /\ Raise("ValueError")
                 /\ UNCHANGED <<new_videos, filtered_by_date,
                                filtered_by_advanced, video_details_dict>>
            ELSE /\ video_details_dict' = details
                 /\ new_videos' = process_new_videos(videos, details,
                                      existing_video_ids, cfg, dates)
                 /\ filtered_by_date' = CountVerdict(videos, details,
                                      existing_video_ids, cfg, dates, "date")
                 /\ filtered_by_advanced' = CountVerdict(videos, details,
                                      existing_video_ids, cfg, dates, "advanced")
                 /\ pc' = "publish"
                 /\ UNCHANGED endVars
    /\ idx' = 1
    /\ step' = "save"
    /\ UNCHANGED <<store, environ, cfg, storeAtStart, video_items, api_calls,
                   calls, videos, log, count, attempt_number, undelivered,
                   pureVars>>

\* the loop moves on after the last call made for new_videos[idx]
Advance(s) ==
    IF StepAfter(s, cfg.YOUTUBE_DETAILVIEW) = "next"
    THEN idx' = idx + 1 /\ step' = "save"
    ELSE idx' = idx /\ step' = StepAfter(s, cfg.YOUTUBE_DETAILVIEW)

\* save_video(video): sqlite3.Error becomes DatabaseError, which nothing
\* between save_video and main() catches
SaveVideo ==
    /\ pc = "publish"
    /\ idx <= Len(new_videos)
    /\ step = "save"
    /\ \E dbOk \in BOOLEAN :
        /\ log' = Append(log, Event("save", new_videos[idx], dbOk))
        /\ IF dbOk
           THEN /\ store' = save_video(store, new_videos[idx])
                /\ Advance("save")
                /\ UNCHANGED <<pc, endVars>>
           ELSE /\ Raise("DatabaseError")
                /\ UNCHANGED <<store, idx, step>>
    /\ UNCHANGED <<environ, cfg, storeAtStart, video_items, api_calls, calls,
                   videos, new_videos, filtered_by_date, filtered_by_advanced,
                   count, attempt_number, video_details_dict, undelivered,
                   pureVars>>

\* send_to_discord(...): one requests.post (the message counters are followed
\* in SpecRate); the except clause turns a RequestException into
\* DiscordWebhookError, which is what the retry decorator (RequestException)
\* gets to see, and nothing before main() catches it
SendToDiscord(op) ==
    /\ pc = "publish"
    /\ idx <= Len(new_videos)
    /\ step = op
    /\ \E postOk \in BOOLEAN :
        /\ log' = Append(log, Event(op, new_videos[idx], postOk))
        /\ IF postOk
           THEN /\ Advance(op)
                /\ attempt_number' = 1
                /\ undelivered' = IF op = "summary"
                                  THEN undelivered \ {new_videos[idx]}
                                  ELSE undelivered
                /\ UNCHANGED <<pc, endVars>>
           ELSE IF Retries("DiscordWebhookError", "RequestException", attempt_number)
           THEN /\ attempt_number' = attempt_number + 1
                /\ UNCHANGED <<pc, endVars, idx, step, undelivered>>
           ELSE /\ Raise("DiscordWebhookError")
                /\ undelivered' =
                       IF op = "summary" /\ ~cfg.INITIALIZE_MODE_YOUTUBE
                       THEN undelivered \cup {new_videos[idx]}
                       ELSE undelivered
                /\ UNCHANGED <<idx, step, attempt_number>>
    /\ UNCHANGED <<store, environ, cfg, storeAtStart, video_items, api_calls,
                   calls, videos, new_videos, filtered_by_date,
                   filtered_by_advanced, count, video_details_dict, pureVars>>

\* send_discord_messages: the plain-text message, then the embed
SendSummary == SendToDiscord("summary")
SendEmbed == SendToDiscord("embed")

\* log_execution_info after the loop: SELECT COUNT(*) FROM videos; main()
\* returns through its finally clause and the process exits with status 0
LogExecutionInfo ==
    /\ pc = "publish"
    /\ idx > Len(new_videos)
    /\ count' = Cardinality(store)
    /\ outcome' = "ok"
    /\ exit_status' = 0
    /\ completion_logged' = TRUE
    /\ pc' = "done"
    /\ UNCHANGED <<store, environ, cfg, storeAtStart, video_items, api_calls,
                   calls, videos, new_videos, filtered_by_date,
                   filtered_by_advanced, idx, step, log, attempt_number,
                   video_details_dict, undelivered, pureVars>>

\* the process exits and only the table stays: the next scheduled run starts
\* from a fresh import
NextRun ==
    /\ pc = "done"
    /\ pc' = "idle"
    /\ environ' = NoEnviron
    /\ cfg' = NoConfig
    /\ storeAtStart' = store
    /\ video_items' = <<>>
    /\ api_calls' = 0
    /\ calls' = 0
    /\ videos' = <<>>
    /\ new_videos' = <<>>
    /\ filtered_by_date' = 0
    /\ filtered_by_advanced' = 0
    /\ idx' = 1
    /\ step' = "save"
    /\ log' = <<>>
    /\ outcome' = "running"
    /\ count' = 0
    /\ exit_status' = 0
    /\ completion_logged' = FALSE
    /\ attempt_number' = 1
    /\ video_details_dict' = {}
    /\ UNCHANGED <<store, undelivered, pureVars>>

Next ==
    \/ CheckEnvVariables
    \/ InitializeDatabase
    \/ BuildYoutubeClient
    \/ FetchChannelVideos
    \/ FetchSearchVideos
    \/ FetchPlaylistVideos
    \/ ProcessVideos
    \/ SaveVideo
    \/ SendSummary
    \/ SendEmbed
    \/ LogExecutionInfo
    \/ NextRun

Spec == Init /\ [][Next]_vars

\* ------------------------------------- apply_advanced_filter on its own

MaxTitleLen == 2
MaxFilterLen == 4

ProductLaunchEvent ==
    <<"P","r","o","d","u","c","t"," ","L","a","u","n","c","h"," ","E","v","e","n","t">>
BetaLaunchNotes ==
    <<"B","e","t","a"," ","L","a","u","n","c","h"," ","N","o","t","e","s">>
PlusLaunchMinusBeta ==
    <<"+","l","a","u","n","c","h"," ","-","b","e","t","a">>

KwTitles ==
    SeqsUpTo({"a", "B", " "}, MaxTitleLen) \cup {ProductLaunchEvent, BetaLaunchNotes}
KwFilters ==
    SeqsUpTo({"a", "b", "+", "-", "\"", " "}, MaxFilterLen) \cup {PlusLaunchMinusBeta}

InitFilter ==
    /\ RunIdle
    /\ dt = DtIdle
    /\ dur = DurIdle
    /\ srt = SrtIdle
    /\ rate = RateIdle
    /\ kw \in [applied : {FALSE}, title : KwTitles, filter : KwFilters,
               result : {FALSE}]

ApplyAdvancedFilter ==
    /\ ~kw.applied
    /\ kw' = [kw EXCEPT !.applied = TRUE,
                        !.result = apply_advanced_filter(kw.title, kw.filter)]
    /\ UNCHANGED <<runVars, dt, dur, srt, rate>>

NextFilter == ApplyAdvancedFilter

SpecFilter == InitFilter /\ [][NextFilter]_vars

\* ----------------------------------------------- date filter on its own

\* most words of a date filter expression of the model
MaxClauses == 2

DateWords ==
    { Word("since", 2024, 1, 1, 0, "-"),
      Word("since", 2024, 6, 5, 0, "-"),
      Word("since", 2023, 2, 29, 0, "-"),
      Word("until", 2024, 1, 1, 0, "-"),
      Word("until", 2024, 6, 5, 0, "-"),
      Word("past", 0, 0, 0, 7, "d"),
      Word("past", 0, 0, 0, 1, "m"),
      Word("past", 0, 0, 0, 7, "w"),
      Word("junk", 0, 0, 0, 0, "-") }

PubChoices ==
    { ToHours(2023, 12, 31, 23), ToHours(2024, 1, 1, 0), ToHours(2024, 6, 1, 0),
      ToHours(2024, 6, 5, 0), ToHours(2024, 6, 8, 0), ToHours(2024, 6, 16, 12) }

InitDate ==
    /\ RunIdle
    /\ kw = KwIdle
    /\ dur = DurIdle
    /\ srt = SrtIdle
    /\ rate = RateIdle
    /\ dt \in [applied : {FALSE}, filter : SeqsUpTo(DateWords, MaxClauses),
               published_at : PubChoices, now : NowChoices,
               error : {FALSE}, result : {FALSE}]

\* parse_date_filter(DATE_FILTER_YOUTUBE), then is_within_date_range
ApplyDateFilter ==
    /\ ~dt.applied
    /\ LET dates == parse_date_filter(dt.filter, dt.now)
       IN  dt' = [dt EXCEPT
                    !.applied = TRUE,
                    !.error = dates.error,
                    !.result = /\ ~dates.error
                               /\ is_within_date_range(dt.published_at,
                                      dates.since_date, dates.until_date,
                                      dates.past_date)]
    /\ UNCHANGED <<runVars, kw, dur, srt, rate>>

NextDate == ApplyDateFilter

SpecDate == InitDate /\ [][NextDate]_vars

\* ---------------------------------------------- parse_duration on its own

\* largest day and hour components of the durations of the model
MaxDays == 1
MaxHours == 2
\* their minute and second components (isodate takes values above 59)
DurMinutes == {0, 5, 90}
DurSeconds == {0, 30, 75}

\* str(n) of a natural number
RECURSIVE Decimal(_)
Decimal(n) ==
    LET digit == <<"0", "1", "2", "3", "4", "5", "6", "7", "8", "9">>
    IN  IF n < 10 THEN <<digit[n + 1]>>
        ELSE Decimal(n \div 10) \o <<digit[(n % 10) + 1]>>

\* The unit words of the f-strings of parse_duration.  A Korean word is one
\* element of the text, written here by its romanisation: "sigan" (hours),
\* "bun" (minutes), "cho" (seconds).
UnitWords(language) ==
    IF language = "Korean"
    THEN [hours |-> "sigan", minutes |-> "bun", seconds |-> "cho"]
    ELSE [hours |-> "h", minutes |-> "m", seconds |-> "s"]

\* isodate.parse_duration(duration).total_seconds() of PnDTnHnMnS
total_seconds(duration) ==
    ((duration.days * 24 + duration.hours) * 60 + duration.minutes) * 60
        + duration.seconds

parse_duration_AllComponents(duration, language) ==
    LET hours == total_seconds(duration) \div 3600
        remainder == total_seconds(duration) % 3600
        u == UnitWords(language)
    IN  Decimal(hours) \o <<u.hours, " ">>
            \o Decimal(remainder \div 60) \o <<u.minutes, " ">>
            \o Decimal(remainder % 60) \o <<u.seconds>>

\* parse_duration under LANGUAGE_YOUTUBE = language
parse_duration(duration, language) ==
    LET hours == total_seconds(duration) \div 3600
        remainder == total_seconds(duration) % 3600
        minutes == remainder \div 60
        seconds == remainder % 60
        u == UnitWords(language)
    IN  IF hours > 0
        THEN Decimal(hours) \o <<u.hours, " ">>
                 \o Decimal(minutes) \o <<u.minutes, " ">>
                 \o Decimal(seconds) \o <<u.seconds>>
        ELSE IF minutes > 0
        THEN Decimal(minutes) \o <<u.minutes, " ">>
                 \o Decimal(seconds) \o <<u.seconds>>
        ELSE Decimal(seconds) \o <<u.seconds>>

InitDuration ==
    /\ RunIdle
    /\ kw = KwIdle
    /\ dt = DtIdle
    /\ srt = SrtIdle
    /\ rate = RateIdle
    /\ dur \in [applied : {FALSE}, days : 0..MaxDays, hours : 0..MaxHours,
                minutes : DurMinutes, seconds : DurSeconds,
                language : {"English", "Korean"}, result : {<<>>}]

ParseDuration ==
    /\ ~dur.applied
    /\ dur' = [dur EXCEPT !.applied = TRUE,
                          !.result = parse_duration(dur, dur.language)]
    /\ UNCHANGED <<runVars, kw, dt, srt, rate>>

NextDuration == ParseDuration

SpecDuration == InitDuration /\ [][NextDuration]_vars

\* ----------------------------------------- sort_playlist_items on its own

\* longest playlist and largest snippet position of the model
MaxSortLen == 2
MaxPosition == 1

SortItems ==
    [id : VideoIds,
     publishedAt : {ToHours(2024, 6, 1, 0), ToHours(2024, 6, 8, 0)},
     position : 0..MaxPosition]

InitSort ==
    /\ RunIdle
    /\ kw = KwIdle
    /\ dt = DtIdle
    /\ dur = DurIdle
    /\ rate = RateIdle
    /\ srt \in [applied : {FALSE}, playlist_items : SeqsUpTo(SortItems, MaxSortLen),
                policy : SortPolicies, error : {FALSE}, result : {<<>>}]

SortPlaylistItems ==
    /\ ~srt.applied
    /\ LET sorted == sort_playlist_items(srt.playlist_items, srt.policy)
       IN  srt' = [srt EXCEPT !.applied = TRUE,
                              !.error = sorted.error,
                              !.result = sorted.items]
    /\ UNCHANGED <<runVars, kw, dt, dur, rate>>

NextSort == SortPlaylistItems

SpecSort == InitSort /\ [][NextSort]_vars

\* ------------------------------------- the message counters of the publisher

\* send_to_discord: the budget (line 695), the window in seconds (lines 691
\* and 696) and the sleep after a post (line 725)
RateBudget == 30
RateWindow == 60
PostSleep == 2

\* most send_to_discord calls the model follows
MaxSends == 32

\* what a step may take longer than no time at all, in seconds; one step of
\* a behaviour does
SlowSeconds == {1, 59, 61}

time_sleep_Returns(now, secs) == now

\* time.sleep(secs) called at `now`: the time at which it returns
time_sleep(now, secs) == now + secs

\* lines 690-701 of send_to_discord, entered at current_time: the counters
\* and the time when requests.post is called
RateGate(discord_message_count, discord_message_reset_time, current_time) ==
    LET expired == current_time - discord_message_reset_time >= RateWindow
        counted == IF expired THEN 0 ELSE discord_message_count
        reset_time == IF expired THEN current_time ELSE discord_message_reset_time
        wait_time == RateWindow - (current_time - reset_time)
    IN  IF counted >= RateBudget /\ wait_time > 0
        THEN [discord_message_count |-> 0,
              discord_message_reset_time |-> time_sleep(current_time, wait_time),
              now |-> time_sleep(current_time, wait_time)]
        ELSE [discord_message_count |-> counted,
              discord_message_reset_time |-> reset_time,
              now |-> current_time]

\* the times of the last RateBudget + 1 posts
Remember(posts, t) ==
    IF Len(posts) <= RateBudget THEN Append(posts, t)
    ELSE Append(Tail(posts), t)

InitRate ==
    /\ RunIdle
    /\ kw = KwIdle
    /\ dt = DtIdle
    /\ dur = DurIdle
    /\ srt = SrtIdle
    /\ rate = RateIdle

\* a process starts: lines 39-40 set the counter and the start of the window
RateStart ==
    /\ rate.pc \in {"off", "exited"}
    /\ rate.pc = "exited" => ~rate.restarted
    /\ rate' = [rate EXCEPT !.pc = "running",
                            !.discord_message_count = 0,
                            !.discord_message_reset_time = rate.now,
                            !.restarted = (rate.pc = "exited")]
    /\ UNCHANGED <<runVars, kw, dt, dur, srt>>

\* one call of send_to_discord, `delay` seconds after the process got to it:
\* a post that fails raises DiscordWebhookError, which ends the process; a
\* post that succeeds is counted and followed by time.sleep(2)
RateSendToDiscord ==
    /\ rate.pc = "running"
    /\ rate.sent < MaxSends
    /\ \E delay \in {0} \cup (IF rate.slow THEN {} ELSE SlowSeconds), postOk \in BOOLEAN :
        LET gate == RateGate(rate.discord_message_count,
                             rate.discord_message_reset_time, rate.now + delay)
        IN  rate' =
              IF postOk
              THEN [rate EXCEPT
                      !.sent = rate.sent + 1,
                      !.slow = rate.slow \/ delay > 0,
                      !.count_at_post = gate.discord_message_count,
                      !.discord_message_count = gate.discord_message_count + 1,
                      !.discord_message_reset_time = gate.discord_message_reset_time,
                      !.posts = Remember(rate.posts, gate.now),
                      !.now = time_sleep(gate.now, PostSleep)]
              ELSE [rate EXCEPT
                      !.sent = rate.sent + 1,
                      !.slow = rate.slow \/ delay > 0,
                      !.discord_message_count = gate.discord_message_count,
                      !.discord_message_reset_time = gate.discord_message_reset_time,
                      !.now = gate.now,
                      !.pc = "exited"]
    /\ UNCHANGED <<runVars, kw, dt, dur, srt>>

\* the run has no more videos and the process exits
RateExit ==
    /\ rate.pc = "running"
    /\ rate' = [rate EXCEPT !.pc = "exited"]
    /\ UNCHANGED <<runVars, kw, dt, dur, srt>>

NextRate ==
    \/ RateStart
    \/ RateSendToDiscord
    \/ RateExit

SpecRate == InitRate /\ [][NextRate]_vars

\* =============================================================== claims

NormalRun == pc # "idle" /\ ~cfg.INITIALIZE_MODE_YOUTUBE
InitializeRun == pc # "idle" /\ cfg.INITIALIZE_MODE_YOUTUBE

\* positions of the log with the given call
EventsOf(op) == {k \in 1..Len(log) : log[k].op = op}
\* ids the current run has written to the table
SavedIds == {log[k].id : k \in {j \in EventsOf("save") : log[j].ok}}

\* C1: Dedup across runs. In a normal (non-initialize) run no save and no
\* webhook post (summary or embed) is made for a video id that was in the
\* table when the run started.
C1_DedupAcrossRuns ==
    NormalRun => \A k \in 1..Len(log) : log[k].id \notin storeAtStart

\* C1 witness: a normal run that ended well, was handed a video already in the
\* table by the upstream, and published another one.
C1_Witness ==
    /\ NormalRun
    /\ pc = "done"
    /\ outcome = "ok"
    /\ \E i \in 1..Len(videos) : videos[i] \in storeAtStart
    /\ Len(log) > 0

\* C2: Chronological delivery. The saves and posts of a run come in ascending
\* order of the videos' published timestamps: no video is saved or notified
\* after a video published later than it was.
C2_ChronologicalDelivery ==
    \A i, j \in 1..Len(log) :
        (i < j /\ log[i].ok /\ log[j].ok) =>
            Catalog[log[i].id].publishedAt <= Catalog[log[j].id].publishedAt

\* the run saved the video, and posted its summary
Persisted(video_id) ==
    \E k \in EventsOf("save") : log[k].id = video_id /\ log[k].ok
Notified(video_id) ==
    \E k \in EventsOf("summary") : log[k].id = video_id

\* C3: Webhook failure is isolated per video. When the run is over and a
\* webhook post for the accepted video at position idx failed, every accepted
\* video after it has been saved and its summary posted.
C3_WebhookFailureIsolated ==
    (pc = "done" /\ outcome = "DiscordWebhookError") =>
        \A k \in (idx + 1)..Len(new_videos) :
            Persisted(new_videos[k]) /\ Notified(new_videos[k])

\* C4: Store failure is isolated per video. When the run is over and the
\* save of the accepted video at position idx failed, every other accepted
\* video after it has been saved and its summary posted.
C4_StoreFailureIsolated ==
    (pc = "done" /\ outcome = "DatabaseError" /\ log # <<>>) =>
        \A k \in (idx + 1)..Len(new_videos) :
            new_videos[k] # new_videos[idx] =>
                Persisted(new_videos[k]) /\ Notified(new_videos[k])

\* The word of a matched term as the filter expression writes it: the text
\* after the prefix, without the quotes of a quoted phrase.
TermWord(tok) ==
    IF /\ Len(tok.matched) >= 2
       /\ tok.matched[1] = "\""
       /\ tok.matched[Len(tok.matched)] = "\""
    THEN SubSeq(tok.matched, 2, Len(tok.matched) - 1)
    ELSE tok.matched

\* The keyword filter as the specification describes it.
TermShouldPass(title, tok) ==
    IF tok.prefix = <<"-">>
    THEN ~Contains(Lower(title), Lower(TermWord(tok)))
    ELSE Contains(Lower(title), Lower(TermWord(tok)))

FilterShouldPass(title, filter) ==
    \A k \in 1..Len(FindAll(filter)) : TermShouldPass(title, FindAll(filter)[k])

\* C5: Keyword filter. A title passes iff every term passes on its own: a
\* term with no prefix or with + passes iff its word is in the title (case
\* ignored), a term with - passes iff its word or quoted phrase is not; and
\* `+launch -beta` accepts "Product Launch Event", rejects "Beta Launch Notes".
C5_KeywordFilter ==
    kw.applied =>
        /\ kw.result = FilterShouldPass(kw.title, kw.filter)
        /\ (kw.filter = PlusLaunchMinusBeta /\ kw.title = ProductLaunchEvent)
               => kw.result
        /\ (kw.filter = PlusLaunchMinusBeta /\ kw.title = BetaLaunchNotes)
               => ~kw.result

\* The clauses a date filter expression holds: for each of since, until and
\* past the first word of that form.
IsFirst(filter, i, clause) ==
    /\ WordMatches(filter[i], clause)
    /\ \A j \in 1..(i - 1) : ~WordMatches(filter[j], clause)

HasClause(filter) ==
    \E i \in 1..Len(filter) :
        SinceMatches(filter[i]) \/ UntilMatches(filter[i]) \/ PastMatches(filter[i])

SatisfiesSomeClause(filter, published_at, now) ==
    \E i \in 1..Len(filter) :
        \/ /\ IsFirst(filter, i, "since")
           /\ published_at >= ToHours(filter[i].y, filter[i].m, filter[i].d, 0)
        \/ /\ IsFirst(filter, i, "until")
           /\ published_at <= ToHours(filter[i].y, filter[i].m, filter[i].d, 0)
        \/ /\ IsFirst(filter, i, "past")
           /\ published_at >= now - PastSpan(filter[i])

Since20240101 == <<Word("since", 2024, 1, 1, 0, "-")>>
Until20240101 == <<Word("until", 2024, 1, 1, 0, "-")>>
Past7d == <<Word("past", 0, 0, 0, 7, "d")>>

\* C6: Date filter with at least one clause. The video passes iff it
\* satisfies at least one of the clauses present (published >= since, or
\* published <= until, or published >= now - past); since:2024-01-01 passes a
\* video of 2024-06-01, until:2024-01-01 alone rejects it, past:7d rejects a
\* video 10 days old and passes one 3 days old.
C6_DateFilterOr ==
    (dt.applied /\ ~dt.error /\ HasClause(dt.filter)) =>
        /\ dt.result = SatisfiesSomeClause(dt.filter, dt.published_at, dt.now)
        /\ (dt.filter = Since20240101 /\ dt.published_at = ToHours(2024, 6, 1, 0))
               => dt.result
        /\ (dt.filter = Until20240101 /\ dt.published_at = ToHours(2024, 6, 1, 0))
               => ~dt.result
        /\ (dt.filter = Past7d /\ dt.now - dt.published_at = 10 * 24)
               => ~dt.result
        /\ (dt.filter = Past7d /\ dt.now - dt.published_at = 3 * 24)
               => dt.result

\* C6 witness: a since and an until clause of which the video satisfies only
\* the first, and the filter was applied and let it pass.
C6_Witness ==
    /\ dt.applied
    /\ dt.filter = Since20240101 \o Until20240101
    /\ dt.published_at = ToHours(2024, 6, 1, 0)
    /\ dt.result

\* C7: Empty date filter. In a normal run whose date filter expression holds
\* no since/until/past clause, the date-range step rejects no video.
C7_EmptyDateFilterPassesAll ==
    (NormalRun /\ ~HasClause(cfg.DATE_FILTER_YOUTUBE)) => filtered_by_date = 0

\* init_db ran and did not fail
DatabaseInitialized ==
    /\ pc \notin {"idle", "init_db"}
    /\ ~ImportRaises(environ)
    /\ check_env_variables(environ)
    /\ ~(pc = "done" /\ outcome = "DatabaseError" /\ log = <<>>)

RECURSIVE ExpectedCalls(_, _)
ExpectedCalls(vs, detailview) ==
    IF vs = <<>> THEN <<>>
    ELSE <<<<"save", Head(vs)>>, <<"summary", Head(vs)>>>>
         \o (IF detailview THEN <<<<"embed", Head(vs)>>>> ELSE <<>>)
         \o ExpectedCalls(Tail(vs), detailview)

CallsMade == [k \in 1..Len(log) |-> <<log[k].op, log[k].id>>]

\* C9: Publisher order per video. The calls of a run are, video by video in
\* the order of the accepted list: the save, then one summary post, then one
\* embed post iff detail mode is on; a run that ends well has made them all,
\* and no post is made for a video whose save did not succeed.
C9_PublisherOrder ==
    LET expected == ExpectedCalls(new_videos, cfg.YOUTUBE_DETAILVIEW)
    IN  /\ Len(log) <= Len(expected)
        /\ CallsMade = SubSeq(expected, 1, Len(log))
        /\ (pc = "done" /\ outcome = "ok") => Len(log) = Len(expected)
        /\ \A k \in 1..Len(log) :
               log[k].op # "save" =>
                   \E j \in 1..(k - 1) :
                       log[j].op = "save" /\ log[j].id = log[k].id /\ log[j].ok

\* C9 witness: a detail-mode run that ended well with two accepted videos.
C9_Witness ==
    /\ pc = "done"
    /\ outcome = "ok"
    /\ cfg.YOUTUBE_DETAILVIEW
    /\ Len(new_videos) = 2
    /\ Len(log) = 6

\* C10: Result cap. In every mode what the source adapter returns is no
\* longer than the cap of the run: INIT_MAX_RESULTS in an initialize run,
\* MAX_RESULTS otherwise.
C10_ResultCap ==
    pc \in {"process", "publish", "done"} => Len(videos) <= max_results_of(cfg)

\* C10 witness: a fetch that took more than one page and returned exactly the
\* cap.
C10_Witness ==
    /\ pc = "process"
    /\ calls >= 2
    /\ Len(videos) = max_results_of(cfg)

\* C11: Configuration gate. A run whose environment has a required value
\* missing or invalid (any of the invalid environments) is over as soon as
\* it is past the start: no page-listing call, nothing fetched, no save and
\* no webhook post, and the table as it was.
C11_ConfigurationGate ==
    (pc # "idle" /\ environ \in InvalidEnvs) =>
        /\ pc = "done"
        /\ outcome = "ValueError"
        /\ calls = 0
        /\ videos = <<>>
        /\ log = <<>>
        /\ store = storeAtStart

\* C11 witness: a run without the API key was stopped by
\* check_env_variables while the table held rows.
C11_Witness ==
    /\ pc = "done"
    /\ environ.YOUTUBE_API_KEY = ""
    /\ completion_logged
    /\ store # {}

\* C12: Exit status. A finished run has a failure status iff it was ended by
\* an exception other than the three error kinds; in every outcome the
\* completion line has been logged, and nothing of the run follows it.
C12_ExitStatus ==
    /\ pc = "done" =>
           ((exit_status # 0) <=> (outcome \notin ErrorKinds \cup {"ok"}))
    /\ pc = "done" => completion_logged
    /\ completion_logged => pc = "done"

\* the hour, minute and second components of the duration the input stands for
DurH == total_seconds(dur) \div 3600
DurM == (total_seconds(dur) % 3600) \div 60
DurS == total_seconds(dur) % 60

\* a component with its unit word, as a list of one text; no text when the
\* component is zero
NonZero(n, unit) == IF n = 0 THEN <<>> ELSE <<Decimal(n) \o <<unit>>>>

Rendered(language) ==
    IF language = "Korean"
    THEN <<"1", "sigan", " ", "5", "bun", " ", "3", "0", "cho">>
    ELSE <<"1", "h", " ", "5", "m", " ", "3", "0", "s">>

IsPT1H5M30S ==
    /\ dur.days = 0
    /\ dur.hours = 1
    /\ dur.minutes = 5
    /\ dur.seconds = 30

\* C13 as stated: the rendered duration is the hour, minute and second
\* components with their localized unit words, joined by spaces, the
\* components that are zero left out; PT1H5M30S is "1h 5m 30s" in English
\* and 1sigan 5bun 30cho in Korean.
C13_ZeroComponentsOmitted ==
    dur.applied =>
        /\ dur.result =
               JoinSpace(NonZero(DurH, UnitWords(dur.language).hours)
                         \o NonZero(DurM, UnitWords(dur.language).minutes)
                         \o NonZero(DurS, UnitWords(dur.language).seconds))
        /\ IsPT1H5M30S => dur.result = Rendered(dur.language)

\* the three components with their unit words, zero or not
AllThree(language) ==
    << Decimal(DurH) \o <<UnitWords(language).hours>>,
       Decimal(DurM) \o <<UnitWords(language).minutes>>,
       Decimal(DurS) \o <<UnitWords(language).seconds>> >>

\* C13 amended: Duration formatting. The rendered duration is the hour,
\* minute and second components with their localized unit words, joined by
\* spaces, starting at the first component that is not zero (the seconds
\* when all are zero): leading zero components are left out, later ones are
\* shown; PT1H5M30S is "1h 5m 30s" in English and 1sigan 5bun 30cho in Korean.
C13_DurationFormatting ==
    dur.applied =>
        /\ dur.result =
               JoinSpace(SubSeq(AllThree(dur.language),
                                IF DurH > 0 THEN 1 ELSE IF DurM > 0 THEN 2 ELSE 3,
                                3))
        /\ IsPT1H5M30S => dur.result = Rendered(dur.language)

\* C13 witness: PT1H5M30S rendered in Korean.
C13_Witness ==
    /\ dur.applied
    /\ IsPT1H5M30S
    /\ dur.language = "Korean"
    /\ dur.result = Rendered("Korean")

\* failed webhook posts of the run
FailedPosts == {k \in 1..Len(log) : log[k].op # "save" /\ ~log[k].ok}

\* C14: Webhook retry. The webhook error ends a run only after the failed
\* post has been attempted 3 times.
C14_WebhookRetry ==
    (pc = "done" /\ outcome = "DiscordWebhookError") =>
        Cardinality(FailedPosts) = 3

\* C15: Upstream retry. An upstream-API error of a listing call ends a run
\* only after the fetch has been attempted 3 times.
C15_UpstreamRetry ==
    (pc = "done" /\ outcome = "YouTubeAPIError" /\ calls > 0) =>
        attempt_number = 3

\* C16: Bounded pagination. One run makes at most 3 page-listing calls in
\* channel mode and in playlist mode, and at most 5 in search mode.
C16_BoundedPagination ==
    calls <= (IF cfg.YOUTUBE_MODE = "search" THEN 5 ELSE 3)

\* C17: Rate budget. Any 60 seconds, from a point in time up to and not
\* including the point 60 seconds later, see at most 30 posts (of any 31
\* consecutive posts the last is at least 60 seconds after the first), also
\* across a restart of the process; and no post is made while the counter
\* has reached the budget of 30 inside the current window: at the moment of
\* a post the counter is below 30.
C17_RateBudget ==
    /\ Len(rate.posts) = 31 => rate.posts[31] - rate.posts[1] >= 60
    /\ rate.sent > 0 => rate.count_at_post < 30
    /\ rate.discord_message_count <= 30

\* C17 witness: one process has made its 31st post, the first of a new
\* window.
C17_Witness ==
    /\ rate.pc = "running"
    /\ ~rate.restarted
    /\ Len(rate.posts) = 31
    /\ rate.discord_message_count = 1

\* how often the item is in the list
Occurrences(items, item) == Cardinality({i \in 1..Len(items) : items[i] = item})

\* the result is in the order of the policy
OrderedBy(policy, playlist_items, result) ==
    CASE policy = "default" -> result = playlist_items
      [] policy = "reverse" ->
            /\ Len(result) = Len(playlist_items)
            /\ \A i \in 1..Len(result) :
                   result[i] = playlist_items[Len(result) + 1 - i]
      [] policy = "date_newest" ->
            \A i, j \in 1..Len(result) :
                i < j => result[i].publishedAt >= result[j].publishedAt
      [] policy = "date_oldest" ->
            \A i, j \in 1..Len(result) :
                i < j => result[i].publishedAt <= result[j].publishedAt
      [] policy = "position" ->
            \A i, j \in 1..Len(result) :
                i < j => result[i].position <= result[j].position

\* C18: Playlist sort policy. Each of the five policies yields a result
\* without error, and the result is a permutation of the list in the order
\* of the policy: default the order given, reverse the reversed order,
\* date_newest / date_oldest by published timestamp descending / ascending,
\* position by ascending playlist position.
C18_PlaylistSortPolicy ==
    srt.applied =>
        /\ ~srt.error
        /\ \A item \in SortItems :
               Occurrences(srt.result, item) = Occurrences(srt.playlist_items, item)
        /\ OrderedBy(srt.policy, srt.playlist_items, srt.result)

\* successful calls of the given kind the run made for the video
TimesDone(op, video_id) ==
    Cardinality({k \in EventsOf(op) : log[k].id = video_id /\ log[k].ok})

\* C19: At most once within a run. A video id is saved at most once and its
\* summary is posted at most once in one run, also when the upstream result
\* lists the id more than once.
C19_AtMostOnceWithinRun ==
    \A v \in VideoIds :
        TimesDone("save", v) <= 1 /\ TimesDone("summary", v) <= 1

\* the upstream handed the video to the run, with its details
Listed(video_id) ==
    /\ \E i \in 1..Len(videos) : videos[i] = video_id
    /\ video_id \in video_details_dict

\* C20: No lost notification. A video a normal run saved before the webhook
\* failed on its summary is notified by a later run: a later normal run that
\* is handed the video again and ends without any failure does not leave it
\* without its summary.
C20_NoLostNotification ==
    (NormalRun /\ pc = "done" /\ outcome = "ok") =>
        \A v \in undelivered : ~Listed(v)

====
